---------------------------- MODULE Spec2Model ----------------------------
(* A model of the IDE Chile pipeline:                                      *)
(*   scripts/download-ide-data.py  esri_to_geojson_geometry,               *)
(*                                 esri_to_geojson, query_layer            *)
(*   scripts/upload-to-turso.py    get_centroid, get_bbox,                 *)
(*                                 load_geojson_files                      *)
(* Python values are encoded as follows.  A dict is a function from the    *)
(* keys it holds; None, numbers, strings and lists are records of one      *)
(* shape [k, n, d, s, items] so that any two of them can be compared.         *)
EXTENDS Integers, Sequences, FiniteSets, TLC

VARIABLES
    \* query_layer (download-ide-data.py)
    max_records,   \* the max_records argument
    all_features,  \* the accumulator
    offset,        \* resultOffset of the next request
    data,          \* the local `data`: the last decoded response, or Unbound
    result,        \* what query_layer returned (or that it raised)
    history,       \* every request issued so far, with its response
    sleeps,        \* number of time.sleep(0.5) calls made
    pc,            \* "idle" | "loop" | "after" | "done"
    \* esri_to_geojson_geometry
    esri_geom,     \* argument
    geom_type,     \* argument
    geometry,      \* return value
    tpc,           \* "idle" | "call" | "done"
    \* esri_to_geojson
    esri_data,     \* argument (the vendor payload)
    features,      \* the local list `features`
    converted,     \* number of vendor features the for loop has visited
    geojson,       \* return value
    apc,           \* "idle" | "loop" | "raised" | "done"
    \* load_geojson_files
    files,         \* the .geojson files of DATA_DIR, sorted by name
    loaded,        \* number of files the for loop has visited
    layers,        \* rows inserted into table layers, in order
    rows,          \* rows inserted into table features, in order
    committed,     \* how many of layers / rows the last commit made durable
    total_features,\* the local total_features
    outcomes,      \* per file visited, the branch the loop body took
    lpc,           \* "idle" | "start" | "loop" | "done" | "closed"
    \* main (upload-to-turso.py)
    runs,          \* number of runs of main that closed their connection
    db_files,      \* what LOCAL_DB held after each of those runs
    \* main and download_service (download-ide-data.py)
    visited,       \* number of services the for loop of main has visited
    summary,       \* the local list `summary`
    total_all,     \* the local total_all
    saved,         \* the artifacts written to OUTPUT_DIR, in order
    unit_errors,   \* per service visited, the errors its pages and layers met
    report,        \* download-summary.json, once written
    dpc            \* "idle" | "loop" | "done"

fetchVars == <<max_records, all_features, offset, data, result, history, sleeps, pc>>
transVars == <<esri_geom, geom_type, geometry, tpc>>
asmVars   == <<esri_data, features, converted, geojson, apc>>
loadVars  == <<files, loaded, layers, rows, committed, total_features, outcomes,
               lpc, runs, db_files>>
downVars  == <<visited, summary, total_all, saved, unit_errors, report, dpc>>
vars      == <<fetchVars, transVars, asmVars, loadVars, downVars>>

---------------------------------------------------------------------------
(* Python values                                                           *)

None      == [k |-> "none", n |-> 0, d |-> 0, s |-> "", items |-> <<>>]
\* the number n / d (d = 1 for the integers of the inputs)
Rat(n, d) == [k |-> "num",  n |-> n, d |-> d, s |-> "", items |-> <<>>]
Num(n)    == Rat(n, 1)
\* the string s, of length n
Str(s, n) == [k |-> "str",  n |-> n, d |-> 0, s |-> s, items |-> <<>>]
List(xs)  == [k |-> "list", n |-> 0, d |-> 0, s |-> "", items |-> xs]
\* a raised exception, as the value of the call that raised it
TypeError      == [k |-> "TypeError",      n |-> 0, d |-> 0, s |-> "", items |-> <<>>]
IndexError     == [k |-> "IndexError",     n |-> 0, d |-> 0, s |-> "", items |-> <<>>]
AttributeError == [k |-> "AttributeError", n |-> 0, d |-> 0, s |-> "", items |-> <<>>]
IsExc(v) == v.k \in {"TypeError", "IndexError", "AttributeError"}

\* a value that is one of the records above, not a dict
IsJson(v) == "k" \in DOMAIN v

\* dict.get(key, default)
Get(dict, key, default) == IF key \in DOMAIN dict THEN dict[key] ELSE default

\* the empty dict {}
EmptyDict == <<>>

\* F applied to the value of v, v evaluated once
With(v, F(_)) == CHOOSE r \in {F(x) : x \in {v}} : TRUE

---------------------------------------------------------------------------
(* query_layer                                                             *)

\* page_size = 1000 in the source; the model runs the same loop on a small
\* page so that pages, ceilings and overshoots can be enumerated.
page_size == 2

\* largest max_records argument tried
MaxRecordsBound == 5

\* the geometryType values a response may carry
GeomTags == {"esriGeometryPoint", "esriGeometryPolyline"}

\* `data` before the first successful json.loads
Unbound == [tag |-> "unbound"]
\* urlopen / read / decode / json.loads raised
Failure == [tag |-> "failure"]
\* the body decoded to JSON that is not an object (a list)
NonObject == [tag |-> "nonobject"]

\* a decoded JSON object with any subset of the keys the loop reads
Keys(hasError, hasFeatures, hasType) ==
    (IF hasError THEN {"error"} ELSE {})
    \cup (IF hasFeatures THEN {"features"} ELSE {})
    \cup (IF hasType THEN {"geometryType"} ELSE {})

Payload(keys, feats, gt) ==
    [key \in keys |->
        CASE key = "error" -> [message |-> "x"]
          [] key = "features" -> feats
          [] key = "geometryType" -> gt]

\* the records a server may put in a page requested at offset `off`
Page(off, n) == [i \in 1..n |-> off + i]

\* every response a request can get: the server is free to fail, to answer
\* an error, and to return any number of features up to one more than was
\* asked for
Responses(off) ==
    {Failure, NonObject} \cup
    {Payload(Keys(e, hf, ht), Page(off, n), g) :
        e \in BOOLEAN, hf \in BOOLEAN, ht \in BOOLEAN,
        n \in 0..(page_size + 1), g \in GeomTags}

IsObject(r) == r \notin {Unbound, Failure, NonObject}

\* a fetcher that does not look for the error key
HasErrorIgnored(d) == FALSE

\* line 155
HasError(d) == "error" \in DOMAIN d

\* line 163
Extend(acc, fs) == acc \o fs

\* a fetcher without the ceiling, and one that stops only past it
LoopEndsNoCeiling(fs, acc, maxrec) == Len(fs) < page_size
LoopEndsStrict(fs, acc, maxrec) == Len(fs) < page_size \/ Len(acc) > maxrec

\* line 166
LoopEnds(fs, acc, maxrec) == Len(fs) < page_size \/ Len(acc) >= maxrec

\* a fetcher that moves on by one record
AdvanceByOne(off) == off + 1

\* line 169
Advance(off) == off + page_size

\* lines 177-186
NoResult == [raised |-> FALSE, returned |-> FALSE, features |-> <<>>, geometryType |-> ""]
Raised   == [raised |-> TRUE, returned |-> FALSE, features |-> <<>>, geometryType |-> ""]
Returned(fs, gt) == [raised |-> FALSE, returned |-> TRUE, features |-> fs, geometryType |-> gt]

BuildResult(d, acc) ==
    IF d = Unbound THEN Returned(acc, "")
    ELSE IF d = NonObject THEN Raised   \* list.get: AttributeError outside the try
    ELSE LET first == Get(d, "geometryType", "")
         IN  IF acc # <<>> /\ "geometryType" \in DOMAIN d
             THEN Returned(acc, d["geometryType"])
             ELSE Returned(acc, first)

\* one pass of the while loop, lines 138-174
FetchPage ==
    /\ pc = "loop"
    /\ \E r \in Responses(offset) :
        /\ history' = Append(history, [offset |-> offset, count |-> page_size,
                                       held |-> Len(all_features), resp |-> r])
        /\ IF r = Failure
           THEN /\ pc' = "after"
                /\ UNCHANGED <<data, all_features, offset, sleeps>>
           ELSE /\ data' = r
                /\ IF r = NonObject \/ HasError(r) \/ Get(r, "features", <<>>) = <<>>
                   THEN /\ pc' = "after"
                        /\ UNCHANGED <<all_features, offset, sleeps>>
                   ELSE LET fs == Get(r, "features", <<>>)
                            acc == Extend(all_features, fs)
                        IN  /\ all_features' = acc
                            /\ IF LoopEnds(fs, acc, max_records)
                               THEN /\ pc' = "after"
                                    /\ UNCHANGED <<offset, sleeps>>
                               ELSE /\ offset' = Advance(offset)
                                    /\ sleeps' = sleeps + 1
                                    /\ pc' = "loop"
    /\ UNCHANGED <<max_records, result>>
    /\ UNCHANGED <<transVars, asmVars, loadVars, downVars>>

\* lines 176-186
FetchReturn ==
    /\ pc = "after"
    /\ result' = BuildResult(data, all_features)
    /\ pc' = "done"
    /\ UNCHANGED <<max_records, all_features, offset, data, history, sleeps>>
    /\ UNCHANGED <<transVars, asmVars, loadVars, downVars>>

FetchIdle ==
    /\ max_records = 0 /\ all_features = <<>> /\ offset = 0 /\ data = Unbound
    /\ result = NoResult /\ history = <<>> /\ sleeps = 0 /\ pc = "idle"

TransIdle ==
    /\ esri_geom = None /\ geom_type = "" /\ geometry = None /\ tpc = "idle"

AsmIdle ==
    /\ esri_data = EmptyDict /\ features = <<>> /\ converted = 0
    /\ geojson = None /\ apc = "idle"

LoadIdle ==
    /\ files = <<>> /\ loaded = 0 /\ layers = <<>> /\ rows = <<>>
    /\ committed = [layers |-> 0, rows |-> 0] /\ total_features = 0
    /\ outcomes = <<>> /\ lpc = "idle" /\ runs = 0 /\ db_files = <<>>

DownIdle ==
    /\ visited = 0 /\ summary = <<>> /\ total_all = 0 /\ saved = <<>>
    /\ unit_errors = <<>> /\ report = [written |-> FALSE] /\ dpc = "idle"

\* lines 132-136
FetchInit ==
    /\ max_records \in 0..MaxRecordsBound
    /\ all_features = <<>>
    /\ offset = 0
    /\ data = Unbound
    /\ result = NoResult
    /\ history = <<>>
    /\ sleeps = 0
    /\ pc = "loop"
    /\ TransIdle /\ AsmIdle /\ LoadIdle /\ DownIdle

FetchNext == FetchPage \/ FetchReturn

SpecFetch == FetchInit /\ [][FetchNext]_vars

\* the same program, which does not stand still: every request returns or
\* raises within its timeout (line 152), so the loop and the return after
\* it are always taken
SpecFetchLive == FetchInit /\ [][FetchNext]_vars /\ WF_vars(FetchNext)

---------------------------------------------------------------------------
(* Claims about query_layer, checked under SpecFetch                       *)

Ceil(a, b) == (a + b - 1) \div b
Min(a, b) == IF a <= b THEN a ELSE b
Max(a, b) == IF a >= b THEN a ELSE b

Resp(k) == history[k].resp
PageOf(r) == IF IsObject(r) THEN Get(r, "features", <<>>) ELSE <<>>

\* a successful page: a decoded object without an error field that holds features
CarriesError(r) == IsObject(r) /\ "error" \in DOMAIN r
Succeeded(r) == IsObject(r) /\ ~CarriesError(r) /\ PageOf(r) # <<>>
CarriedType(r) == Succeeded(r) /\ "geometryType" \in DOMAIN r
\* a transport/timeout/decoding failure, or a response with an error field
Stopped(r) == r = Failure \/ CarriesError(r)

TypedPages == {k \in 1..Len(history) : CarriedType(Resp(k))}
LastTyped == CHOOSE k \in TypedPages : \A j \in TypedPages : j <= k

RECURSIVE ConcatPages(_)
ConcatPages(m) ==
    IF m = 0 THEN <<>>
    ELSE ConcatPages(m - 1) \o (IF Succeeded(Resp(m)) THEN PageOf(Resp(m)) ELSE <<>>)

\* C1 (the claim as stated; the code violates it): whenever query_layer
\* returns after some successful page carried a geometryType, the returned
\* geometryType is that of the last such page, also when a later error
\* payload or feature-less response ended the loop.
C1_GeometryTypeOfLastSuccess ==
    (result.returned /\ TypedPages # {})
        => result.geometryType = Resp(LastTyped)["geometryType"]

\* C2: a request that ends in a failure or an error response is the last
\* request; the loop has stopped, and the features accumulated and returned
\* are the concatenation, in order, of the successful pages before it.
C2_FailureStopsWithPartial ==
    \A k \in 1..Len(history) :
        Stopped(Resp(k)) =>
            /\ k = Len(history)
            /\ pc # "loop"
            /\ \A j \in 1..(k - 1) : Succeeded(Resp(j))
            /\ all_features = ConcatPages(k - 1)
            /\ pc = "done" => result = Returned(ConcatPages(k - 1), result.geometryType)

C2_Witness ==
    /\ pc = "done"
    /\ Len(history) >= 2
    /\ CarriesError(Resp(Len(history)))
    /\ PageOf(Resp(Len(history))) # <<>>
    /\ Len(result.features) = page_size

\* an endpoint that holds exactly n records and serves each request from
\* its offset
ServedBy(n) ==
    \A k \in 1..Len(history) :
        /\ IsObject(Resp(k)) /\ ~CarriesError(Resp(k))
        /\ Len(PageOf(Resp(k))) = Min(page_size, Max(0, n - history[k].offset))

\* C3: against an endpoint that holds exactly max_records records and so
\* answers with full pages (max_records a positive multiple of page_size),
\* query_layer issues exactly ceil(max_records / page_size) requests and
\* returns max_records features.
C3_CeilingRequests ==
    (/\ pc = "done"
     /\ max_records > 0 /\ max_records % page_size = 0
     /\ ServedBy(max_records))
        => /\ Len(history) = Ceil(max_records, page_size)
           /\ result.returned
           /\ Len(result.features) = max_records

C3_Witness ==
    /\ pc = "done"
    /\ max_records > 0 /\ max_records % page_size = 0
    /\ ServedBy(max_records)
    /\ Len(history) >= 2

AtMostPageSize == \A k \in 1..Len(history) : Len(PageOf(Resp(k))) <= page_size

NoOvershoot ==
    /\ \A k \in 1..Len(history) : history[k].held < max_records
    /\ result.returned =>
        /\ Len(result.features) < max_records + page_size
        /\ (max_records > 0 /\ max_records % page_size = 0)
              => Len(result.features) <= max_records

\* C4 (as stated): when no page holds more than page_size features, no
\* request is issued once the accumulator holds max_records or more, and
\* fewer than max_records + page_size features are returned (at most
\* max_records when that is a positive multiple of page_size).
C4_NoRequestAtCeiling == AtMostPageSize => NoOvershoot

\* C4 (amended): the same, for max_records >= 1.
C4_NoRequestAtCeilingPositive == (max_records >= 1 /\ AtMostPageSize) => NoOvershoot

C4_Witness ==
    /\ pc = "done"
    /\ max_records >= 1
    /\ AtMostPageSize
    /\ Len(history) >= 2
    /\ Len(result.features) > max_records

\* C18: request k (counted from 0) asks for page_size records from offset
\* k * page_size; one delay has been slept per request that was followed
\* by another, and none after the response that ended the loop.
C18_ContiguousPagesOneDelay ==
    /\ \A k \in 1..Len(history) :
          /\ history[k].offset = (k - 1) * page_size
          /\ history[k].count = page_size
    /\ pc = "loop" => sleeps = Len(history)
    /\ pc \in {"after", "done"} => sleeps = Len(history) - 1

C18_Witness ==
    /\ pc = "done"
    /\ Len(history) = 3
    /\ sleeps = 2
    /\ history[3].offset = 2 * page_size

RequestCeiling == Max(1, Ceil(max_records, page_size))

\* C19: whatever the endpoint answers, query_layer ends, and it has then
\* issued at least one request; it never issues more than
\* max(1, ceil(max_records / page_size)) requests.
C19_TerminatesWithinCeiling ==
    /\ [](Len(history) <= RequestCeiling)
    /\ [](pc \in {"after", "done"} => Len(history) >= 1)
    /\ <>(pc = "done")

C19_Witness ==
    /\ pc = "done"
    /\ Len(history) = RequestCeiling
    /\ Len(history) >= 2
    /\ \E k \in 1..Len(history) : Len(PageOf(Resp(k))) > page_size

---------------------------------------------------------------------------
(* Python operations on values                                             *)

\* len(v)
PyLen(v) ==
    CASE v.k = "list" -> Len(v.items)
      [] v.k = "str" -> v.n
      [] OTHER -> 0

\* whether len(v), iter(v) and v[i] are defined
IsSized(v) == v.k \in {"list", "str"}

\* v[i], i counted from 0
Index(v, i) ==
    CASE v.k = "list" -> IF i < Len(v.items) THEN v.items[i + 1] ELSE IndexError
      [] v.k = "str" -> IF i < v.n THEN Str("c", 1) ELSE IndexError
      [] OTHER -> TypeError

\* the elements `for c in v` visits (v sized)
Iter(v) == IF v.k = "list" THEN v.items ELSE [j \in 1..v.n |-> Str("c", 1)]

\* bool(v)
Truthy(v) ==
    CASE v.k = "list" -> v.items # <<>>
      [] v.k = "str" -> v.n > 0
      [] v.k = "num" -> v.n # 0
      [] OTHER -> FALSE

\* `not g` for a geometry argument: None or {}
NotGeom(g) == IF IsJson(g) THEN ~Truthy(g) ELSE DOMAIN g = {}

---------------------------------------------------------------------------
(* esri_to_geojson_geometry                                                *)

\* most paths / rings in one vendor geometry
MaxParts == 2

VendorTags == {"esriGeometryPoint", "esriGeometryPolyline",
               "esriGeometryPolygon", "esriGeometryMultipoint"}
TypeTags == VendorTags \cup {"", "esriGeometryEnvelope"}

Geom(t, c) == [type |-> t, coordinates |-> c]

\* lines 69-73
PointOf(g) ==
    IF "x" \in DOMAIN g /\ "y" \in DOMAIN g
    THEN Geom("Point", List(<<g["x"], g["y"]>>))
    ELSE None

\* a translator that never emits LineString
PolylineOfAlwaysMulti(g) ==
    IF "paths" \in DOMAIN g
    THEN IF ~IsSized(g["paths"]) THEN TypeError
         ELSE Geom("MultiLineString", g["paths"])
    ELSE None

\* lines 75-85
PolylineOf(g) ==
    IF "paths" \in DOMAIN g
    THEN IF ~IsSized(g["paths"]) THEN TypeError   \* len(None), len(5)
         ELSE IF PyLen(g["paths"]) = 1
              THEN Geom("LineString", Index(g["paths"], 0))
              ELSE Geom("MultiLineString", g["paths"])
    ELSE None

\* a translator that groups all rings into one polygon
PolygonOfGrouped(g) ==
    IF "rings" \in DOMAIN g
    THEN IF ~IsSized(g["rings"]) THEN TypeError
         ELSE IF PyLen(g["rings"]) = 1
              THEN Geom("Polygon", g["rings"])
              ELSE Geom("MultiPolygon", List(<<g["rings"]>>))
    ELSE None

\* lines 87-97
PolygonOf(g) ==
    IF "rings" \in DOMAIN g
    THEN IF ~IsSized(g["rings"]) THEN TypeError
         ELSE IF PyLen(g["rings"]) = 1
              THEN Geom("Polygon", g["rings"])
              ELSE Geom("MultiPolygon",
                        List([i \in 1..PyLen(g["rings"]) |->
                                  List(<<Iter(g["rings"])[i]>>)]))
    ELSE None

\* a translator that supplies a missing points list
MultipointOfDefaulted(g) == Geom("MultiPoint", Get(g, "points", List(<<>>)))

\* lines 99-103
MultipointOf(g) ==
    IF "points" \in DOMAIN g
    THEN Geom("MultiPoint", g["points"])
    ELSE None

\* `key in g` for a g that is not a dict: True, False or TypeError.  (None
\* of the model's strings holds a key as a proper substring.)
Holds(g, key) ==
    CASE g.k = "list" -> \E j \in 1..Len(g.items) : g.items[j].k = "str" /\ g.items[j].s = key
      [] g.k = "str" -> g.s = key
      [] OTHER -> TypeError                 \* "x" in 5

\* lines 68-105 for a truthy geometry that is not a dict: the first key test
\* raises on a number; where every key test passes, g[key] raises
OfNonDict(g, keys) ==
    IF keys = {} THEN None
    ELSE IF g.k \notin {"list", "str"} THEN TypeError
    ELSE IF \A key \in keys : Holds(g, key) THEN TypeError ELSE None

\* lines 63-105
esri_to_geojson_geometry(g, t) ==
    IF NotGeom(g) THEN None
    ELSE IF IsJson(g)
         THEN OfNonDict(g, CASE t = "esriGeometryPoint" -> {"x", "y"}
                             [] t = "esriGeometryPolyline" -> {"paths"}
                             [] t = "esriGeometryPolygon" -> {"rings"}
                             [] t = "esriGeometryMultipoint" -> {"points"}
                             [] OTHER -> {})
    ELSE CASE t = "esriGeometryPoint" -> PointOf(g)
           [] t = "esriGeometryPolyline" -> PolylineOf(g)
           [] t = "esriGeometryPolygon" -> PolygonOf(g)
           [] t = "esriGeometryMultipoint" -> MultipointOf(g)
           [] OTHER -> None

\* ---- the vendor geometries tried
P1 == List(<<Num(-70), Num(-33)>>)
P2 == List(<<Num(10), Num(20)>>)
PathSet == {List(<<>>), List(<<P1>>), List(<<P1, P2>>), List(<<P2, P1>>)}
SeqsUpTo(S, n) == UNION {[1..m -> S] : m \in 0..n}
PartLists == {List(q) : q \in SeqsUpTo(PathSet, MaxParts)}
\* x / y values: numbers, null, and the "NaN" string
XYValues == {Num(-70), Num(20), None, Str("NaN", 3)}

PointDict(hasX, hasY, x, y) ==
    [key \in (IF hasX THEN {"x"} ELSE {}) \cup (IF hasY THEN {"y"} ELSE {}) |->
        IF key = "x" THEN x ELSE y]

EsriGeoms ==
    {None, EmptyDict, [spatialReference |-> Num(4326)]}
    \cup {PointDict(hx, hy, x, y) : hx \in BOOLEAN, hy \in BOOLEAN,
                                    x \in XYValues, y \in XYValues}
    \cup {[paths |-> v] : v \in PartLists \cup {None}}
    \cup {[rings |-> v] : v \in PartLists \cup {None}}
    \cup {[points |-> v] : v \in PathSet}

TransInit ==
    /\ esri_geom \in EsriGeoms
    /\ geom_type \in TypeTags
    /\ geometry = None
    /\ tpc = "call"
    /\ FetchIdle /\ AsmIdle /\ LoadIdle /\ DownIdle

\* the call, lines 63-105
Translate ==
    /\ tpc = "call"
    /\ geometry' = esri_to_geojson_geometry(esri_geom, geom_type)
    /\ tpc' = "done"
    /\ UNCHANGED <<esri_geom, geom_type>>
    /\ UNCHANGED <<fetchVars, asmVars, loadVars, downVars>>

TransNext == Translate

SpecTranslate == TransInit /\ [][TransNext]_vars

---------------------------------------------------------------------------
(* Claims about esri_to_geojson_geometry, checked under SpecTranslate      *)

RequiredKeys(t) ==
    CASE t = "esriGeometryPoint" -> {"x", "y"}
      [] t = "esriGeometryPolyline" -> {"paths"}
      [] t = "esriGeometryPolygon" -> {"rings"}
      [] t = "esriGeometryMultipoint" -> {"points"}
      [] OTHER -> {}

NoGeometry(g) == g = None \/ DOMAIN g = {}
LacksRequiredKey(g, t) == ~IsJson(g) /\ ~(RequiredKeys(t) \subseteq DOMAIN g)

\* C5: an empty or absent geometry, a tag outside the four vendor tags, and
\* a vendor tag whose required key is missing from the geometry all yield
\* None, and the call does not raise.
C5_NullNeverRaises ==
    (/\ tpc = "done"
     /\ \/ NoGeometry(esri_geom)
        \/ geom_type \notin VendorTags
        \/ LacksRequiredKey(esri_geom, geom_type))
        => geometry = None

C5_Witness ==
    /\ tpc = "done"
    /\ geom_type = "esriGeometryMultipoint"
    /\ ~NoGeometry(esri_geom)
    /\ "paths" \in DOMAIN esri_geom
    /\ geometry = None

NumericXY(g) ==
    /\ ~IsJson(g)
    /\ {"x", "y"} \subseteq DOMAIN g
    /\ g["x"].k = "num" /\ g["y"].k = "num"

\* C6 (the claim as stated; the code violates it): under the Point tag the
\* result is Point [x, y] exactly when x and y are both present and
\* numeric, and None when either is missing or not a number.
C6_PointNeedsNumericXY ==
    (tpc = "done" /\ geom_type = "esriGeometryPoint")
        => IF NumericXY(esri_geom)
           THEN geometry = Geom("Point", List(<<esri_geom["x"], esri_geom["y"]>>))
           ELSE geometry = None

HasList(g, key) == ~IsJson(g) /\ key \in DOMAIN g /\ g[key].k = "list"

\* C7: under the Polyline tag, one path gives a LineString whose
\* coordinates are that path; two or more give a MultiLineString whose
\* coordinates are the paths in order; empty paths are passed on as they are.
C7_PolylinePaths ==
    (tpc = "done" /\ geom_type = "esriGeometryPolyline" /\ HasList(esri_geom, "paths"))
        => LET ps == esri_geom["paths"].items
           IN  /\ Len(ps) = 1 => geometry = Geom("LineString", ps[1])
               /\ Len(ps) >= 2 => geometry = Geom("MultiLineString", List(ps))

C7_Witness ==
    /\ tpc = "done" /\ geom_type = "esriGeometryPolyline"
    /\ HasList(esri_geom, "paths")
    /\ Len(esri_geom["paths"].items) >= 2
    /\ esri_geom["paths"].items[1] = List(<<>>)
    /\ esri_geom["paths"].items[2] = List(<<P2, P1>>)
    /\ ~IsJson(geometry)
    /\ geometry.type = "MultiLineString"

\* C8: under the Polygon tag, one ring gives a Polygon whose only ring is
\* the input ring unchanged; n >= 2 rings give a MultiPolygon of n members,
\* member i being the single-ring polygon of ring i.
C8_PolygonRings ==
    (tpc = "done" /\ geom_type = "esriGeometryPolygon" /\ HasList(esri_geom, "rings"))
        => LET rs == esri_geom["rings"].items
           IN  /\ Len(rs) = 1 => geometry = Geom("Polygon", List(<<rs[1]>>))
               /\ Len(rs) >= 2 =>
                    /\ ~IsJson(geometry)
                    /\ geometry.type = "MultiPolygon"
                    /\ Len(geometry.coordinates.items) = Len(rs)
                    /\ \A i \in 1..Len(rs) :
                          geometry.coordinates.items[i] = List(<<rs[i]>>)

C8_Witness ==
    /\ tpc = "done" /\ geom_type = "esriGeometryPolygon"
    /\ HasList(esri_geom, "rings")
    /\ Len(esri_geom["rings"].items) >= 2
    /\ esri_geom["rings"].items[1] # esri_geom["rings"].items[2]
    /\ ~IsJson(geometry)
    /\ geometry.type = "MultiPolygon"

MultiTypes == {"MultiLineString", "MultiPolygon"}

\* the members of a produced geometry: the entries of its coordinates
Members(g) == IF g.coordinates.k = "list" THEN g.coordinates.items ELSE <<>>

\* C21 (the claim as stated; the code violates it): every MultiLineString and every MultiPolygon the translation
\* returns has at least two members; empty paths or empty rings never give
\* a Multi* geometry with no members.
C21_MultiHasTwoMembers ==
    (tpc = "done" /\ ~IsJson(geometry) /\ geometry.type \in MultiTypes)
        => Len(Members(geometry)) >= 2

---------------------------------------------------------------------------
(* esri_to_geojson                                                         *)

\* most features in one vendor payload
MaxFeatures == 2

\* lines 119-123
Feature(geom, props) == [type |-> "Feature", geometry |-> geom, properties |-> props]

\* an assembler that filters out null geometries
AddFeatureSkippingNull(fs, f) == IF f.geometry = None THEN fs ELSE Append(fs, f)

\* line 124
AddFeature(fs, f) == Append(fs, f)

\* ---- the vendor payloads tried
VendorGeoms ==
    {None, EmptyDict,
     PointDict(TRUE, TRUE, Num(-70), Num(-33)),
     PointDict(TRUE, FALSE, Num(-70), Num(-33)),
     [paths |-> List(<<List(<<P1, P2>>)>>)],
     [rings |-> List(<<List(<<P1, P2, P1>>), List(<<P2, P1, P2>>)>>)],
     [paths |-> None]}
VendorAttrs == {[name |-> "A"], [name |-> "B"]}

VendorFeature(hasGeom, hasAttrs, g, a) ==
    [key \in (IF hasGeom THEN {"geometry"} ELSE {})
             \cup (IF hasAttrs THEN {"attributes"} ELSE {}) |->
        IF key = "geometry" THEN g ELSE a]

VendorFeatures ==
    {VendorFeature(hg, ha, g, a) : hg \in BOOLEAN, ha \in BOOLEAN,
                                   g \in VendorGeoms, a \in VendorAttrs}

VendorPayload(hasFeatures, hasType, fs, t) ==
    [key \in (IF hasFeatures THEN {"features"} ELSE {})
             \cup (IF hasType THEN {"geometryType"} ELSE {}) |->
        IF key = "features" THEN fs ELSE t]

VendorPayloads ==
    {VendorPayload(hf, ht, fs, t) :
        hf \in BOOLEAN, ht \in BOOLEAN,
        fs \in SeqsUpTo(VendorFeatures, MaxFeatures),
        t \in {"esriGeometryPoint", "esriGeometryPolyline", "esriGeometryPolygon"}}

AsmInit ==
    /\ esri_data \in VendorPayloads
    /\ features = <<>>
    /\ converted = 0
    /\ geojson = None
    /\ apc = "loop"
    /\ FetchIdle /\ TransIdle /\ LoadIdle /\ DownIdle

\* one pass of the for loop, lines 113-124
AsmFeature ==
    /\ apc = "loop"
    /\ converted < Len(Get(esri_data, "features", <<>>))
    /\ LET esri_feature == Get(esri_data, "features", <<>>)[converted + 1]
           g == esri_to_geojson_geometry(Get(esri_feature, "geometry", None),
                                         Get(esri_data, "geometryType", ""))
       IN  IF IsJson(g) /\ IsExc(g)
           THEN /\ apc' = "raised"
                /\ UNCHANGED <<features, converted>>
           ELSE /\ features' = AddFeature(features,
                        Feature(g, Get(esri_feature, "attributes", EmptyDict)))
                /\ converted' = converted + 1
                /\ apc' = "loop"
    /\ UNCHANGED <<esri_data, geojson>>
    /\ UNCHANGED <<fetchVars, transVars, loadVars, downVars>>

\* lines 126-129
AsmReturn ==
    /\ apc = "loop"
    /\ converted = Len(Get(esri_data, "features", <<>>))
    /\ geojson' = [type |-> "FeatureCollection", features |-> features]
    /\ apc' = "done"
    /\ UNCHANGED <<esri_data, features, converted>>
    /\ UNCHANGED <<fetchVars, transVars, loadVars, downVars>>

AsmNext == AsmFeature \/ AsmReturn

SpecAssemble == AsmInit /\ [][AsmNext]_vars

---------------------------------------------------------------------------
(* Claims about esri_to_geojson, checked under SpecAssemble                *)

VendorIn == Get(esri_data, "features", <<>>)

\* C9: the collection returned holds one feature per vendor feature, in
\* order; feature i has the translation of vendor feature i's geometry
\* under the payload's geometryType (None kept as None) and vendor feature
\* i's attributes ({} when absent).
C9_OneFeaturePerVendorFeature ==
    apc = "done" =>
        /\ geojson.type = "FeatureCollection"
        /\ Len(geojson.features) = Len(VendorIn)
        /\ \A i \in 1..Len(VendorIn) :
              geojson.features[i] =
                  [type |-> "Feature",
                   geometry |->
                       esri_to_geojson_geometry(Get(VendorIn[i], "geometry", None),
                                                Get(esri_data, "geometryType", "")),
                   properties |-> Get(VendorIn[i], "attributes", EmptyDict)]

C9_Witness ==
    /\ apc = "done"
    /\ Len(VendorIn) = 2
    /\ VendorIn[1] = VendorIn[2]
    /\ Len(geojson.features) = 2
    /\ geojson.features[1].geometry = None
    /\ geojson.features[1].properties = [name |-> "A"]

---------------------------------------------------------------------------
(* get_centroid, get_bbox (upload-to-turso.py)                             *)

Abs(x) == IF x < 0 THEN -x ELSE x

RECURSIVE Gcd(_, _)
Gcd(a, b) == IF b = 0 THEN a ELSE Gcd(b, a % b)

RECURSIVE SumN(_)
SumN(xs) == IF xs = <<>> THEN 0 ELSE xs[1].n + SumN(Tail(xs))

\* sum(xs) / len(xs) for integers xs, as a fraction in lowest terms
Mean(xs) ==
    LET sm == SumN(xs)
        g == Gcd(Abs(sm), Len(xs))
    IN  Rat(sm \div g, Len(xs) \div g)

\* a Python tuple
Tuple(xs) == List(xs)
NonePair == Tuple(<<None, None>>)

FirstExc(xs) == xs[CHOOSE j \in 1..Len(xs) : IsExc(xs[j]) /\ \A i \in 1..(j - 1) : ~IsExc(xs[i])]

\* lons = [c[0] for c in cs]; lats = [c[1] for c in cs];
\* (sum(lons) / len(lons), sum(lats) / len(lats))
MeanOf(lons, lats) ==
    IF \E j \in 1..Len(lons) : IsExc(lons[j]) THEN FirstExc(lons)
    ELSE IF \E j \in 1..Len(lats) : IsExc(lats[j]) THEN FirstExc(lats)
    ELSE IF \E j \in 1..Len(lons) : lons[j].k # "num" \/ lats[j].k # "num"
         THEN TypeError                       \* 0 + None, 0 + "NaN", 0 + [..]
    ELSE Tuple(<<Mean(lons), Mean(lats)>>)

\* [c[i] for c in cs]
RECURSIVE Column(_, _)
Column(cs, i) == IF cs = <<>> THEN <<>> ELSE <<Index(cs[1], i)>> \o Column(Tail(cs), i)

MeanPair(cs) ==
    With(<<Column(cs, 0), Column(cs, 1)>>, LAMBDA ll : MeanOf(ll[1], ll[2]))

\* [c for line in ls for c in line]
RECURSIVE Flatten(_)
Flatten(ls) == IF ls = <<>> THEN <<>> ELSE Iter(ls[1]) \o Flatten(Tail(ls))

AllSized(xs) == \A j \in 1..Len(xs) : IsSized(xs[j])

\* line 82
PointCentroid(coords) ==
    LET a == Index(coords, 0)
        b == Index(coords, 1)
    IN  IF IsExc(a) THEN a ELSE IF IsExc(b) THEN b ELSE Tuple(<<a, b>>)

\* lines 81-113, for truthy coords: the tuple returned, NonePair when the
\* branch falls through to line 118, or the exception raised
CentroidBody(t, coords) ==
    CASE t = "Point" -> PointCentroid(coords)
      [] t \in {"LineString", "MultiPoint"} ->
            IF ~IsSized(coords) THEN TypeError ELSE MeanPair(Iter(coords))
      [] t = "Polygon" ->
            LET ring == Index(coords, 0)
            IN  IF IsExc(ring) THEN ring
                ELSE IF ~Truthy(ring) THEN NonePair
                ELSE IF ~IsSized(ring) THEN TypeError
                ELSE MeanPair(Iter(ring))
      [] t = "MultiLineString" ->
            IF ~IsSized(coords) \/ ~AllSized(Iter(coords)) THEN TypeError
            ELSE LET all_coords == Flatten(Iter(coords))
                 IN  IF all_coords # <<>> THEN MeanPair(all_coords) ELSE NonePair
      [] t = "MultiPolygon" ->
            IF ~IsSized(coords) \/ ~AllSized(Iter(coords)) THEN TypeError
            ELSE LET all_rings == Flatten(Iter(coords))
                 IN  IF ~AllSized(all_rings) THEN TypeError
                     ELSE LET all_coords == Flatten(all_rings)
                          IN  IF all_coords # <<>> THEN MeanPair(all_coords)
                              ELSE NonePair
      [] OTHER -> NonePair

\* lines 69-118
get_centroid(g) ==
    IF NotGeom(g) THEN NonePair
    ELSE IF IsJson(g) THEN AttributeError     \* [..].get, outside the try
    ELSE LET geomtype == Get(g, "type", "")
             coords == Get(g, "coordinates", List(<<>>))
         IN  IF ~Truthy(coords) THEN NonePair
             ELSE With(CentroidBody(geomtype, coords),
                       LAMBDA r : IF r.k \in {"IndexError", "TypeError"}
                                  THEN NonePair ELSE r)   \* lines 115-118

\* the model's strings in lexicographic order
StrRank(str) == IF str = "NaN" THEN 0 ELSE 1

\* a < b: "lt", "ge", or "err" when Python raises TypeError
RECURSIVE PyLt(_, _)
PyLt(a, b) ==
    CASE a.k = "num" /\ b.k = "num" -> IF a.n * b.d < b.n * a.d THEN "lt" ELSE "ge"
      [] a.k = "str" /\ b.k = "str" -> IF StrRank(a.s) < StrRank(b.s) THEN "lt" ELSE "ge"
      [] a.k = "list" /\ b.k = "list" ->
            LET m == IF Len(a.items) < Len(b.items) THEN Len(a.items) ELSE Len(b.items)
                diff == {j \in 1..m : a.items[j] # b.items[j]}
            IN  IF diff = {} THEN (IF Len(a.items) < Len(b.items) THEN "lt" ELSE "ge")
                ELSE PyLt(a.items[CHOOSE j \in diff : \A i \in diff : j <= i],
                          b.items[CHOOSE j \in diff : \A i \in diff : j <= i])
      [] OTHER -> "err"

\* min(xs) from position i on, `best` so far
RECURSIVE MinFrom(_, _, _)
MinFrom(xs, i, best) ==
    IF i > Len(xs) THEN best
    ELSE LET c == PyLt(xs[i], best)
         IN  IF c = "err" THEN TypeError
             ELSE MinFrom(xs, i + 1, IF c = "lt" THEN xs[i] ELSE best)

RECURSIVE MaxFrom(_, _, _)
MaxFrom(xs, i, best) ==
    IF i > Len(xs) THEN best
    ELSE LET c == PyLt(best, xs[i])
         IN  IF c = "err" THEN TypeError
             ELSE MaxFrom(xs, i + 1, IF c = "lt" THEN xs[i] ELSE best)

PyMin(xs) == MinFrom(xs, 2, xs[1])
PyMax(xs) == MaxFrom(xs, 2, xs[1])

\* line 126: get_centroid(f.get("geometry")) for f in features
RECURSIVE Centroids(_)
Centroids(fs) ==
    IF fs = <<>> THEN <<>>
    ELSE <<get_centroid(Get(fs[1], "geometry", None))>> \o Centroids(Tail(fs))

\* lines 132-134
BoxOf(lons, lats) ==
    IF lons # <<>> /\ lats # <<>>
    THEN With(<<PyMin(lons), PyMin(lats), PyMax(lons), PyMax(lats)>>,
              LAMBDA bb : IF \E j \in 1..4 : IsExc(bb[j]) THEN TypeError ELSE Tuple(bb))
    ELSE Tuple(<<None, None, None, None>>)

\* [c[i] for c in centroids], on 1-based i
RECURSIVE Component(_, _)
Component(cents, i) ==
    IF cents = <<>> THEN <<>> ELSE <<cents[1].items[i]>> \o Component(Tail(cents), i)

\* lines 126-130, given the centroid of every feature
BoxOfCentroids(cents) ==
    IF \E j \in 1..Len(cents) : IsExc(cents[j]) THEN FirstExc(cents)
    ELSE With(SelectSeq(cents, LAMBDA c : c.items[1] # None),
              LAMBDA located : With(<<Component(located, 1), Component(located, 2)>>,
                                    LAMBDA ll : BoxOf(ll[1], ll[2])))

\* lines 121-134: the 4-tuple, or the exception raised
get_bbox(fs) == With(Centroids(fs), LAMBDA cents : BoxOfCentroids(cents))

---------------------------------------------------------------------------
(* load_geojson_files                                                      *)

\* line 167: files smaller than this many bytes are skipped
MinSize == 700

\* batch_size = 500 in the source (line 205); the model commits on a small
\* batch so that several batches occur
batch_size == 2

\* most features in one artifact
MaxLoadFeatures == 2

\* a str bound to a TEXT column
Text(str) == Str(str, 0)

\* json.dumps(v), kept apart from v itself
Dumps(v) == [json |-> v]

\* what sqlite3 accepts as a parameter: None, numbers, str
Bindable(v) == v.k \in {"none", "num", "str"}

\* lines 186-190: the type of the first feature that has a geometry, or the
\* exception raised
FirstGeomType(fs) ==
    LET with == {j \in 1..Len(fs) : ~NotGeom(Get(fs[j], "geometry", None))}
    IN  IF with = {} THEN None
        ELSE LET g == Get(fs[CHOOSE j \in with : \A i \in with : j <= i], "geometry", None)
             IN  IF IsJson(g) THEN AttributeError
                 ELSE IF "type" \in DOMAIN g THEN Text(g["type"]) ELSE None

\* lines 196-202
LayerRow(stem, fs, gt, bbox) ==
    [id |-> stem, name |-> [title |-> stem], source_file |-> <<stem, ".geojson">>,
     geometry_type |-> gt, feature_count |-> Len(fs),
     bbox_west |-> bbox.items[1], bbox_south |-> bbox.items[2],
     bbox_east |-> bbox.items[3], bbox_north |-> bbox.items[4]]

\* lines 210-224: the row inserted for one feature, or the exception raised
RowOf(stem, g, properties, centroid) ==
    IF IsExc(centroid) THEN centroid
    ELSE IF ~Bindable(centroid.items[1]) \/ ~Bindable(centroid.items[2])
         THEN TypeError                    \* sqlite3: type 'list' is not supported
    ELSE [layer_id |-> stem,
          geometry_type |-> IF NotGeom(g) \/ "type" \notin DOMAIN g
                            THEN None ELSE Text(g["type"]),
          geometry |-> IF NotGeom(g) THEN None ELSE Dumps(g),
          centroid_lon |-> centroid.items[1],
          centroid_lat |-> centroid.items[2],
          properties |-> Dumps(properties)]

\* lines 207-224
FeatureRow(stem, f) ==
    With(get_centroid(Get(f, "geometry", None)),
         LAMBDA centroid : RowOf(stem, Get(f, "geometry", None),
                                 Get(f, "properties", EmptyDict), centroid))

\* lines 219-226: the row is inserted; the batch's last row is followed by
\* conn.commit()
Inserted(st, row, batchEnd, nlayers) ==
    [st EXCEPT !.rows = Append(st.rows, row),
               !.committed = IF batchEnd
                             THEN [layers |-> nlayers, rows |-> Len(st.rows) + 1]
                             ELSE st.committed]

\* lines 206-226 from feature i on: st = [rows, committed, failed]
\* st.failed: "none", "bind" (a Python exception, caught at line 233) or
\* "storage" (conn.commit() raised sqlite3.Error, caught at line 233 too);
\* st.fault = "commit" makes the first commit fail
RECURSIVE InsertFrom(_, _, _, _, _)
InsertFrom(stem, fs, i, nlayers, st) ==
    IF i > Len(fs) THEN st
    ELSE With(<<FeatureRow(stem, fs[i]), st>>,
              LAMBDA p :
                  IF IsJson(p[1])
                  THEN [p[2] EXCEPT !.failed = "bind"]
                  ELSE IF (i % batch_size = 0 \/ i = Len(fs)) /\ p[2].fault = "commit"
                  THEN [p[2] EXCEPT !.rows = Append(@, p[1]), !.failed = "storage"]
                  ELSE InsertFrom(stem, fs, i + 1, nlayers,
                           Inserted(p[2], p[1],
                                    i % batch_size = 0 \/ i = Len(fs), nlayers)))

\* sqlite3 accepts the parameters of the layers insert (lines 196-202)
LayerBindable(gt, bbox) ==
    Bindable(gt) /\ \A j \in 1..4 : Bindable(bbox.items[j])

\* a loader without the size test
TooSmallNever(file) == FALSE

\* line 167
TooSmall(file) == file.size < MinSize

\* a loader that takes an artifact without features for a layer
NoFeaturesNever(fs) == FALSE

\* line 178
NoFeatures(fs) == fs = <<>>

\* the loop body ends without touching the store
Skip(outcome) ==
    /\ outcomes' = Append(outcomes, outcome)
    /\ UNCHANGED <<layers, rows, committed, total_features>>

\* the outcome logged for a file whose inserts ended in st
OutcomeOf(st) ==
    CASE st.failed = "none" -> "loaded"            \* line 229
      [] st.failed = "bind" -> "error"             \* line 234
      [] st.failed = "storage" -> "storage_error"  \* line 234

\* one pass of the for loop over the files, lines 163-234
LoadFile ==
    /\ lpc = "loop"
    /\ loaded < Len(files)
    /\ loaded' = loaded + 1
    /\ LET file == files[loaded + 1]
           fs == Get(file.data, "features", <<>>)
       IN  IF TooSmall(file) THEN Skip("small")                 \* line 168
           ELSE IF ~file.parses THEN Skip("unparseable")        \* line 232
           ELSE IF NoFeatures(fs) THEN Skip("no_features")      \* line 180
           ELSE \E gt \in {FirstGeomType(fs)}, bbox \in {get_bbox(fs)} :
                    IF IsExc(gt) \/ IsExc(bbox) THEN Skip("error")
                    ELSE IF ~LayerBindable(gt, bbox) THEN Skip("error")
                    ELSE IF file.fault = "insert" THEN Skip("storage_error")
                    ELSE \E st \in {InsertFrom(file.stem, fs, 1, Len(layers) + 1,
                                        [rows |-> rows, committed |-> committed,
                                         failed |-> "none", fault |-> file.fault])},
                            rolled \in BOOLEAN :
                             \* a commit that fails may leave the transaction
                             \* open or have it rolled back by SQLite
                             /\ rolled => st.failed = "storage"
                             /\ layers' =
                                   IF rolled THEN SubSeq(layers, 1, st.committed.layers)
                                   ELSE Append(layers, LayerRow(file.stem, fs, gt, bbox))
                             /\ rows' =
                                   IF rolled THEN SubSeq(st.rows, 1, st.committed.rows)
                                   ELSE st.rows
                             /\ committed' = st.committed
                             /\ total_features' =
                                   IF st.failed = "none"
                                   THEN total_features + Len(fs)
                                   ELSE total_features
                             /\ outcomes' = Append(outcomes, OutcomeOf(st))
    /\ UNCHANGED <<files, lpc, runs, db_files>>
    /\ UNCHANGED <<fetchVars, transVars, asmVars, downVars>>

\* line 236
LoadReturn ==
    /\ lpc = "loop"
    /\ loaded = Len(files)
    /\ lpc' = "done"
    /\ UNCHANGED <<files, loaded, layers, rows, committed, total_features, outcomes,
                   runs, db_files>>
    /\ UNCHANGED <<fetchVars, transVars, asmVars, downVars>>

\* ---- the artifacts tried
Ring1 == List(<<P1, P2, P1>>)
Ring2 == List(<<P2, P1, P2>>)

StoredGeoms ==
    {None, EmptyDict,
     Geom("Point", P2),
     Geom("Point", P1),
     Geom("Point", List(<<None, Num(20)>>)),
     Geom("Point", List(<<Str("NaN", 3), Str("NaN", 3)>>)),
     Geom("Point", List(<<Num(10)>>)),
     Geom("Point", List(<<P1, P2>>)),
     Geom("Point", List(<<Num(10), None>>)),
     Geom("Point", List(<<None, P1>>)),
     Geom("LineString", List(<<P1, P2>>)),
     Geom("LineString", List(<<P1, List(<<None, Num(3)>>)>>)),
     Geom("LineString", P1),
     Geom("Polygon", List(<<Ring1>>)),
     Geom("Polygon", List(<<P1, P2>>)),
     Geom("Polygon", List(<<List(<<>>)>>)),
     Geom("MultiLineString", List(<<List(<<P1, P2>>), List(<<P2>>)>>)),
     Geom("MultiLineString", List(<<>>)),
     Geom("MultiLineString", List(<<List(<<>>), List(<<P1>>)>>)),
     Geom("MultiPolygon", List(<<List(<<Ring1>>), List(<<Ring2>>)>>)),
     Geom("MultiPolygon", List(<<Ring1>>)),
     Geom("MultiPoint", List(<<P1, P2>>)),
     Geom("GeometryCollection", List(<<P1>>)),
     [type |-> "Point"],
     [coordinates |-> P1]}

StoredFeature(hasGeom, g) ==
    [key \in {"type", "properties"} \cup (IF hasGeom THEN {"geometry"} ELSE {}) |->
        CASE key = "type" -> "Feature"
          [] key = "properties" -> [name |-> "A"]
          [] key = "geometry" -> g]

StoredFeatures == {StoredFeature(hg, g) : hg \in BOOLEAN, g \in StoredGeoms}

Artifacts ==
    {EmptyDict} \cup
    {[type |-> "FeatureCollection", features |-> fs] :
        fs \in SeqsUpTo(StoredFeatures, MaxLoadFeatures)}

ArtifactFiles ==
    {[stem |-> "apr_layer0", size |-> sz, parses |-> ok, data |-> d,
      fault |-> "none"] :
        sz \in {MinSize - 1, MinSize}, ok \in BOOLEAN, d \in Artifacts}

\* the state create_local_db leaves (lines 137-152) when load_geojson_files
\* is called on a directory of one artifact
LoadInit ==
    /\ files \in {<<f>> : f \in ArtifactFiles}
    /\ loaded = 0
    /\ layers = <<>>
    /\ rows = <<>>
    /\ committed = [layers |-> 0, rows |-> 0]
    /\ total_features = 0
    /\ outcomes = <<>>
    /\ lpc = "loop"
    /\ runs = 0
    /\ db_files = <<>>
    /\ FetchIdle /\ TransIdle /\ AsmIdle /\ DownIdle

LoadNext == LoadFile \/ LoadReturn

SpecLoad == LoadInit /\ [][LoadNext]_vars

---------------------------------------------------------------------------
(* Claims about the loader's centroids, checked under SpecLoad             *)

IsPosition(v) ==
    /\ v.k = "list" /\ Len(v.items) >= 2
    /\ v.items[1].k = "num" /\ v.items[2].k = "num"
Positions(v) == v.k = "list" /\ \A j \in 1..Len(v.items) : IsPosition(v.items[j])
PositionLists(v) == v.k = "list" /\ \A j \in 1..Len(v.items) : Positions(v.items[j])
PositionListLists(v) == v.k = "list" /\ \A j \in 1..Len(v.items) : PositionLists(v.items[j])

KnownTypes == {"Point", "LineString", "Polygon", "MultiLineString", "MultiPolygon", "MultiPoint"}

\* the coordinates have the nesting of the type, every position with a
\* numeric longitude and latitude
WellNested(t, c) ==
    CASE t = "Point" -> IsPosition(c)
      [] t \in {"LineString", "MultiPoint"} -> Positions(c)
      [] t \in {"Polygon", "MultiLineString"} -> PositionLists(c)
      [] t = "MultiPolygon" -> PositionListLists(c)
      [] OTHER -> FALSE

RECURSIVE NoEmptyPart(_)
NoEmptyPart(v) ==
    v.k = "list" => (v.items # <<>> /\ \A j \in 1..Len(v.items) : NoEmptyPart(v.items[j]))

Shaped(g) ==
    /\ ~IsJson(g) /\ {"type", "coordinates"} \subseteq DOMAIN g
    /\ g["type"] \in KnownTypes
    /\ WellNested(g["type"], g["coordinates"])

\* a geometry of a known type, rightly nested, with no empty part
WellFormed(g) == Shaped(g) /\ NoEmptyPart(g["coordinates"])
\* a geometry that is there but of no known type, without coordinates,
\* wrongly nested, or with a missing or non-numeric coordinate component
Malformed(g) == ~NoGeometry(g) /\ ~Shaped(g)

RowGeometry(i) == Get(Get(files[1].data, "features", <<>>)[i], "geometry", None)

\* C10 (the claim as stated; the code violates it): in every features row
\* the two centroid columns are both null or both non-null; they are null
\* when the feature's geometry is null, empty or malformed and non-null
\* when it is well formed; a Point at [10, 20] has centroid (10, 20).
\* (Rightly nested geometries with an empty part are held to the first
\* conjunct only.)
C10_CentroidNullIffMalformed ==
    \A i \in 1..Len(rows) :
        LET g == RowGeometry(i)
            lon == rows[i].centroid_lon
            lat == rows[i].centroid_lat
        IN  /\ (lon = None) <=> (lat = None)
            /\ (NoGeometry(g) \/ Malformed(g)) => (lon = None /\ lat = None)
            /\ WellFormed(g) => (lon # None /\ lat # None)
            /\ g = Geom("Point", P2) => (lon = Num(10) /\ lat = Num(20))

\* the one artifact of the run passed the size, parse and emptiness tests
Visited ==
    /\ lpc = "done"
    /\ files[1].size >= MinSize /\ files[1].parses
    /\ Get(files[1].data, "features", <<>>) # <<>>

\* C11 (the claim as stated; the code violates it): get_centroid gives
\* (None, None) for a geometry whose coordinates are wrongly nested or lack
\* a component and never raises, so every feature of an artifact that is
\* loaded gets its row, whatever the geometries in that artifact are.
C11_MalformedGeometryNeverAborts ==
    Visited =>
        /\ Len(rows) = Len(files[1].data["features"])
        /\ outcomes = <<"loaded">>

\* a <= b: equal values, or numbers in order
Leq(a, b) == a = b \/ (a.k = "num" /\ b.k = "num" /\ a.n * b.d <= b.n * a.d)

\* the rows that have a centroid
Located == {i \in 1..Len(rows) : rows[i].centroid_lon # None /\ rows[i].centroid_lat # None}

Lowest(v, col(_)) == (\E i \in Located : col(i) = v) /\ \A i \in Located : Leq(v, col(i))
Highest(v, col(_)) == (\E i \in Located : col(i) = v) /\ \A i \in Located : Leq(col(i), v)

\* C12 (the claim as stated; the code violates it): the box get_bbox
\* returned for a loaded artifact, as stored in its layers row, is the min
\* and max of the longitudes and latitudes of the features that have a
\* centroid, so west <= east and south <= north; it is all None exactly
\* when no feature has a centroid, and is never None in part.
C12_BboxOfLocatedCentroids ==
    (Visited /\ outcomes = <<"loaded">>) =>
        LET box == <<layers[1].bbox_west, layers[1].bbox_south,
                     layers[1].bbox_east, layers[1].bbox_north>>
            lon(i) == rows[i].centroid_lon
            lat(i) == rows[i].centroid_lat
        IN  /\ (Located = {}) <=> (\A j \in 1..4 : box[j] = None)
            /\ (\A j \in 1..4 : box[j] = None) \/ (\A j \in 1..4 : box[j] # None)
            /\ Located # {} =>
                  /\ Lowest(box[1], lon) /\ Lowest(box[2], lat)
                  /\ Highest(box[3], lon) /\ Highest(box[4], lat)
                  /\ Leq(box[1], box[3]) /\ Leq(box[2], box[4])

---------------------------------------------------------------------------
(* main of upload-to-turso.py: create_local_db, load_geojson_files, close, *)
(* run up to MaxRuns times on a directory of up to MaxFiles artifacts      *)

\* most artifacts in DATA_DIR
MaxFiles == 2

\* runs of main in a row
MaxRuns == 2

\* a store left behind by an earlier run that is not removed
RecreatedKeeping(table) == table

\* lines 142-150: LOCAL_DB is removed and the schema executed on a new file
Recreated(table) == <<>>

\* main line 324 and load_geojson_files lines 157-161; sqlite3.connect or
\* executescript may raise, which nothing catches
CreateLocalDb ==
    /\ lpc \in {"start", "closed"}
    /\ runs < MaxRuns
    /\ \E created \in BOOLEAN :
          IF created
          THEN /\ layers' = Recreated(layers)
               /\ rows' = Recreated(rows)
               /\ committed' = [layers |-> Len(Recreated(layers)),
                                rows |-> Len(Recreated(rows))]
               /\ loaded' = 0
               /\ total_features' = 0
               /\ outcomes' = <<>>
               /\ lpc' = "loop"
          ELSE /\ lpc' = "aborted"
               /\ UNCHANGED <<layers, rows, committed, loaded, total_features, outcomes>>
    /\ UNCHANGED <<files, runs, db_files>>
    /\ UNCHANGED <<fetchVars, transVars, asmVars, downVars>>

\* main lines 327-333: conn.close() without a commit drops what the last
\* commit did not cover
MainClose ==
    /\ lpc = "done"
    /\ db_files' = Append(db_files,
                          [layers |-> SubSeq(layers, 1, committed.layers),
                           features |-> SubSeq(rows, 1, committed.rows)])
    /\ layers' = SubSeq(layers, 1, committed.layers)
    /\ rows' = SubSeq(rows, 1, committed.rows)
    /\ runs' = runs + 1
    /\ lpc' = "closed"
    /\ UNCHANGED <<files, loaded, committed, total_features, outcomes>>
    /\ UNCHANGED <<fetchVars, transVars, asmVars, downVars>>

\* ---- the directories tried
GoodPoint == StoredFeature(TRUE, Geom("Point", P2))
\* a feature whose row cannot be bound, while its artifact's box can
BadPoint == StoredFeature(TRUE, Geom("Point", List(<<None, P1>>)))

FeatureCollection(fs) == [type |-> "FeatureCollection", features |-> fs]

MainFeatureLists ==
    {<<GoodPoint>>, <<BadPoint>>, <<GoodPoint, BadPoint>>,
     <<GoodPoint, GoodPoint, BadPoint>>, <<GoodPoint, GoodPoint, GoodPoint>>}

\* an artifact as the run finds it, but for its name
MainFiles ==
    {[size |-> MinSize, parses |-> FALSE, data |-> EmptyDict, fault |-> "none"],
     [size |-> MinSize - 1, parses |-> TRUE,
      data |-> FeatureCollection(<<GoodPoint>>), fault |-> "none"],
     [size |-> MinSize, parses |-> TRUE, data |-> EmptyDict, fault |-> "none"],
     [size |-> MinSize, parses |-> TRUE,
      data |-> FeatureCollection(<<>>), fault |-> "none"]}
    \cup {[size |-> MinSize, parses |-> TRUE, data |-> FeatureCollection(fs),
           fault |-> ft] :
             fs \in MainFeatureLists, ft \in {"none", "insert", "commit"}}

\* file names in sorted order (line 163), without the .geojson suffix
Stems == <<"alertas-dga_layer0", "apr_layer0", "embalses_layer0", "puentes_layer0">>

Named(f, k) ==
    [stem |-> Stems[k], size |-> f.size, parses |-> f.parses, data |-> f.data,
     fault |-> f.fault]

Directories ==
    {[k \in 1..Len(d) |-> Named(d[k], k)] : d \in SeqsUpTo(MainFiles, MaxFiles)}

MainInit ==
    /\ files \in Directories
    /\ loaded = 0
    /\ layers = <<>>
    /\ rows = <<>>
    /\ committed = [layers |-> 0, rows |-> 0]
    /\ total_features = 0
    /\ outcomes = <<>>
    /\ lpc = "start"
    /\ runs = 0
    /\ db_files = <<>>
    /\ FetchIdle /\ TransIdle /\ AsmIdle /\ DownIdle

MainNext == CreateLocalDb \/ LoadFile \/ LoadReturn \/ MainClose

SpecMain == MainInit /\ [][MainNext]_vars

---------------------------------------------------------------------------
(* Claims about whole runs of the loader, checked under SpecMain           *)

FeaturesOf(f) == Get(f.data, "features", <<>>)

\* neither table holds a row of artifact k
NoRowsFor(k) ==
    /\ \A i \in 1..Len(layers) : layers[i].id # files[k].stem
    /\ \A j \in 1..Len(rows) : rows[j].layer_id # files[k].stem

\* an artifact nothing is wrong with: big enough, parseable, stored without
\* a failure, every feature a Point at [10, 20]
Healthy(f) ==
    /\ f.size >= MinSize /\ f.parses /\ f.fault = "none"
    /\ FeaturesOf(f) # <<>>
    /\ \A j \in 1..Len(FeaturesOf(f)) : FeaturesOf(f)[j] = GoodPoint

RowsFor(k) == {j \in 1..Len(rows) : rows[j].layer_id = files[k].stem}

\* artifact k has its layers row and one features row per feature
FullyLoaded(k) ==
    /\ \E i \in 1..Len(layers) :
          /\ layers[i].id = files[k].stem
          /\ layers[i].feature_count = Len(FeaturesOf(files[k]))
    /\ Cardinality(RowsFor(k)) = Len(FeaturesOf(files[k]))
    /\ \A j \in RowsFor(k) :
          rows[j].centroid_lon = Num(10) /\ rows[j].centroid_lat = Num(20)

LoaderReturned == lpc \in {"done", "closed"}

\* C13: an artifact below the size threshold never gets a layers row or a
\* features row; the loop goes on to the end of the directory, and the
\* healthy artifacts next to it are loaded in full.
C13_SmallArtifactSkipped ==
    \A k \in 1..Len(files) :
        files[k].size < MinSize =>
            /\ NoRowsFor(k)
            /\ LoaderReturned =>
                  /\ loaded = Len(files)
                  /\ \A j \in 1..Len(files) : Healthy(files[j]) => FullyLoaded(j)

C13_Witness ==
    /\ lpc = "done"
    /\ Len(files) = 2
    /\ files[1].size < MinSize /\ FeaturesOf(files[1]) # <<>>
    /\ Healthy(files[2]) /\ FullyLoaded(2)

\* unparseable, or without features
MalformedArtifact(f) == f.size >= MinSize /\ (~f.parses \/ FeaturesOf(f) = <<>>)

HealthyFiles == SelectSeq(files, Healthy)

RECURSIVE Copies(_, _)
Copies(x, n) == IF n = 0 THEN <<>> ELSE <<x>> \o Copies(x, n - 1)

RECURSIVE LayerIdsOf(_)
LayerIdsOf(fs) ==
    IF fs = <<>> THEN <<>>
    ELSE Copies(fs[1].stem, Len(FeaturesOf(fs[1]))) \o LayerIdsOf(Tail(fs))

\* C14: an unparseable artifact and one without features get no layers row
\* and no features row and the loop reaches the end of the directory; in a
\* directory of such artifacts and healthy ones the two tables hold what
\* the healthy artifacts alone give, in their order.
C14_MalformedArtifactSkipped ==
    /\ \A k \in 1..Len(files) : MalformedArtifact(files[k]) => NoRowsFor(k)
    /\ (/\ lpc = "done"
        /\ \A k \in 1..Len(files) : MalformedArtifact(files[k]) \/ Healthy(files[k]))
           => /\ loaded = Len(files)
              /\ [i \in 1..Len(layers) |-> <<layers[i].id, layers[i].feature_count>>]
                   = [i \in 1..Len(HealthyFiles) |->
                         <<HealthyFiles[i].stem, Len(FeaturesOf(HealthyFiles[i]))>>]
              /\ [j \in 1..Len(rows) |-> rows[j].layer_id] = LayerIdsOf(HealthyFiles)
              /\ total_features = Len(rows)
              /\ committed = [layers |-> Len(layers), rows |-> Len(rows)]

C14_Witness ==
    /\ lpc = "done"
    /\ Len(files) = 2
    /\ ~files[1].parses /\ files[1].size >= MinSize
    /\ Healthy(files[2]) /\ FullyLoaded(2)
    /\ Len(layers) = 1

\* C15 (the claim as stated; the code violates it): once an insert or a
\* commit has failed in the store while artifact k was being loaded, the
\* failure has left the loader and the run is aborted at that artifact.
C15_StorageFailureAborts ==
    \A k \in 1..Len(outcomes) :
        outcomes[k] = "storage_error" => (lpc = "aborted" /\ loaded = k)

NoFaults == \A k \in 1..Len(files) : files[k].fault = "none"

\* C16: with a store that does not fail, every run of main on the same
\* directory leaves LOCAL_DB with the same layers rows and the same
\* features rows (so the same centroids) as the first run did.
C16_RunTwiceSameStore ==
    NoFaults => \A r \in 1..Len(db_files) : db_files[r] = db_files[1]

C16_Witness ==
    /\ NoFaults
    /\ Len(db_files) = 2
    /\ Len(db_files[2].layers) = 2
    /\ db_files[2].features # <<>>
    /\ layers = db_files[2].layers

\* an artifact as download_service writes it (download-ide-data.py lines
\* 201-208): parseable, one feature or more, here every one a Point at
\* [10, 20]; json.dump gives a short file for few features (183 bytes for
\* one Point with two attributes), so its size may lie below the threshold
Written(f) ==
    /\ f.parses /\ f.fault = "none"
    /\ FeaturesOf(f) # <<>>
    /\ \A j \in 1..Len(FeaturesOf(f)) : FeaturesOf(f)[j] = GoodPoint

\* C22 (the claim as stated; the code violates it): every artifact the
\* downloader writes is loaded, whatever its size: when the loader has
\* returned, each parseable artifact with n >= 1 features has one layers row
\* and n features rows.
C22_WrittenArtifactLoaded ==
    LoaderReturned => \A k \in 1..Len(files) : Written(files[k]) => FullyLoaded(k)

---------------------------------------------------------------------------
(* Claims about the tables after one artifact, checked under SpecLoad      *)

\* C20 (the claim as stated; the code violates it): when load_geojson_files
\* has returned, each layers row counts exactly the features rows of its
\* layer and each features row belongs to a layers row, also when an
\* exception ended the loading of the artifact after its layers row.
C20_FeatureCountMatchesRows ==
    lpc = "done" =>
        /\ \A i \in 1..Len(layers) :
              layers[i].feature_count =
                  Cardinality({j \in 1..Len(rows) : rows[j].layer_id = layers[i].id})
        /\ \A j \in 1..Len(rows) : \E i \in 1..Len(layers) : rows[j].layer_id = layers[i].id

---------------------------------------------------------------------------
(* main and download_service of download-ide-data.py                       *)

\* services of the catalog visited by a run (29 in the source)
MaxServices == 2

\* most features query_layer returns for a layer
MaxLayerFeatures == 2

\* the head of the catalog, lines 20-23
Catalog ==
    <<[id |-> "red-hidrometrica", name |-> "Hydrometric Network", layers |-> <<0>>],
      [id |-> "alertas-dga", name |-> "Flood Alerts", layers |-> <<0>>],
      [id |-> "estaciones-embalse", name |-> "Reservoir Stations", layers |-> <<0>>],
      [id |-> "acuiferos-protegidos", name |-> "Protected Aquifers", layers |-> <<0>>]>>

SERVICES == SubSeq(Catalog, 1, MaxServices)

\* what the work on one layer can meet (lines 198-217): query_layer returns
\* n features, after a page of it failed or not, or raises; for n > 0
\* esri_to_geojson and the writing of the artifact may raise
LayerRuns ==
    {[query |-> Raised, page_failed |-> TRUE, convert_raises |-> FALSE,
      write_raises |-> FALSE]}
    \cup {[query |-> Returned(Page(0, n), g), page_failed |-> pf,
           convert_raises |-> cr, write_raises |-> wr] :
             n \in 0..MaxLayerFeatures, g \in {"esriGeometryPoint"},
             pf \in BOOLEAN, cr \in BOOLEAN, wr \in BOOLEAN}

\* lines 199-214: the artifact is written and counted
Saved(run) ==
    /\ run.query.returned /\ run.query.features # <<>>
    /\ ~run.convert_raises /\ ~run.write_raises

\* an exception reached the except at line 216
LayerFailed(run) ==
    \/ run.query.raised
    \/ run.query.returned /\ run.query.features # <<>>
         /\ (run.convert_raises \/ run.write_raises)

\* the "Error" lines printed for the layer (lines 156, 173, 217)
ErrorsOf(run) ==
    (IF run.page_failed THEN {"page"} ELSE {})
    \cup (IF run.query.raised THEN {"query_layer"} ELSE {})
    \cup (IF LayerFailed(run) /\ ~run.query.raised
          THEN (IF run.convert_raises THEN {"esri_to_geojson"} ELSE {"write"})
          ELSE {})

\* line 210
CountOf(run) == IF Saved(run) THEN Len(run.query.features) ELSE 0

RECURSIVE SumCounts(_)
SumCounts(rs) == IF rs = <<>> THEN 0 ELSE CountOf(rs[1]) + SumCounts(Tail(rs))

\* lines 189-221: the count download_service returns
download_service(rs) == SumCounts(rs)

\* lines 238-243; download_service raises nothing for the services of the
\* catalog, so the except at line 245 is not entered
Entry(service, count) ==
    [id |-> service.id, name |-> service.name, features |-> count,
     status |-> "success"]

RECURSIVE ArtifactsOf(_, _, _)
ArtifactsOf(service, rs, i) ==
    IF i > Len(rs) THEN <<>>
    ELSE (IF Saved(rs[i])
          THEN <<[service |-> service.id, layer |-> service.layers[i],
                  features |-> Len(rs[i].query.features)]>>
          ELSE <<>>) \o ArtifactsOf(service, rs, i + 1)

\* one pass of the for loop of main, lines 235-254, download_service
\* included
DownloadService ==
    /\ dpc = "loop"
    /\ visited < Len(SERVICES)
    /\ LET service == SERVICES[visited + 1]
       IN  \E rs \in [1..Len(service.layers) -> LayerRuns] :
             LET count == download_service(rs)
             IN  /\ summary' = Append(summary, Entry(service, count))
                 /\ total_all' = total_all + count
                 /\ saved' = saved \o ArtifactsOf(service, rs, 1)
                 /\ unit_errors' = Append(unit_errors,
                                          [i \in 1..Len(rs) |-> ErrorsOf(rs[i])])
    /\ visited' = visited + 1
    /\ UNCHANGED <<report, dpc>>
    /\ UNCHANGED <<fetchVars, transVars, asmVars, loadVars>>

\* lines 256-274
WriteSummary ==
    /\ dpc = "loop"
    /\ visited = Len(SERVICES)
    /\ report' = [written |-> TRUE, services |-> summary, totalFeatures |-> total_all]
    /\ dpc' = "done"
    /\ UNCHANGED <<visited, summary, total_all, saved, unit_errors>>
    /\ UNCHANGED <<fetchVars, transVars, asmVars, loadVars>>

\* lines 230-233
DownInit ==
    /\ visited = 0
    /\ summary = <<>>
    /\ total_all = 0
    /\ saved = <<>>
    /\ unit_errors = <<>>
    /\ report = [written |-> FALSE]
    /\ dpc = "loop"
    /\ FetchIdle /\ TransIdle /\ AsmIdle /\ LoadIdle

DownNext == DownloadService \/ WriteSummary

SpecDownload == DownInit /\ [][DownNext]_vars

---------------------------------------------------------------------------
(* Claims about the download run, checked under SpecDownload               *)

RECURSIVE SumFeatures(_)
SumFeatures(es) == IF es = <<>> THEN 0 ELSE es[1].features + SumFeatures(Tail(es))

\* C17 (the claim as stated; the code violates it): when the run is over
\* the summary has been written with one entry per catalog service, in
\* order, and the total of their counts; a service one of whose pages or
\* layers failed is entered with status failed.
C17_FailedServiceReported ==
    dpc = "done" =>
        /\ report.written
        /\ Len(report.services) = Len(SERVICES)
        /\ \A i \in 1..Len(SERVICES) : report.services[i].id = SERVICES[i].id
        /\ report.totalFeatures = SumFeatures(report.services)
        /\ \A i \in 1..Len(SERVICES) :
              (\E l \in 1..Len(unit_errors[i]) : unit_errors[i][l] # {})
                  => report.services[i].status = "failed"

===========================================================================
